---- MODULE Spec2Model ----
(***************************************************************************)
(* A model of the CHIP-8 core (chip8_core/src/lib.rs) and of the calls the *)
(* desktop host makes on it (desktop/src/main.rs).  The Emulator struct is *)
(* the state; every public method is one action.  The methods themselves   *)
(* are operators on a record of the struct's fields, so that a property    *)
(* can speak about the result of a call made in any reachable state.       *)
(***************************************************************************)
EXTENDS Integers, Sequences, FiniteSets, TLC

\* ------------------------------------------------------------------------
\* Program constants (lib.rs:1-26)
\* ------------------------------------------------------------------------
SCREEN_WIDTH == 64
SCREEN_HEIGHT == 32
RAM_SIZE == 4096
NUM_REGS == 16
STACK_SIZE == 16
NUM_KEYS == 16
START_ADDR == 512
FONTSET_SIZE == 80
FONTSET ==
    << 240, 144, 144, 144, 240,
        32,  96,  32,  32, 112,
       240,  16, 240, 128, 240,
       240,  16, 240,  16, 240,
       144, 144, 240,  16,  16,
       240, 128, 240,  16, 240,
       240, 128, 240, 144, 240,
       240,  16,  32,  64,  64,
       240, 144, 240, 144, 240,
       240, 144, 240,  16, 240,
       240, 144, 240, 144, 144,
       224, 144, 224, 144, 224,
       240, 128, 128, 128, 240,
       224, 144, 144, 144, 224,
       240, 128, 240, 128, 240,
       240, 128, 240, 128, 128 >>

\* Option<usize>::None of waiting_for_key_release (lib.rs:40)
None == -1

\* the index of the flag register, written 0xF in the source
VF == 15

\* ------------------------------------------------------------------------
\* Machine integers
\* ------------------------------------------------------------------------
Byte == 0..255
U8(n) == n % 256
U16(n) == n % 65536

\* bit i of v
BitAt(v, i) == (v \div (2 ^ i)) % 2

\* the u8 operators |, & and ^
BitOr(a, b) ==
    LET B(i) == IF BitAt(a, i) = 1 \/ BitAt(b, i) = 1 THEN 2 ^ i ELSE 0
    IN  B(0) + B(1) + B(2) + B(3) + B(4) + B(5) + B(6) + B(7)
BitAnd(a, b) ==
    LET B(i) == IF BitAt(a, i) = 1 /\ BitAt(b, i) = 1 THEN 2 ^ i ELSE 0
    IN  B(0) + B(1) + B(2) + B(3) + B(4) + B(5) + B(6) + B(7)
BitXor(a, b) ==
    LET B(i) == IF BitAt(a, i) # BitAt(b, i) THEN 2 ^ i ELSE 0
    IN  B(0) + B(1) + B(2) + B(3) + B(4) + B(5) + B(6) + B(7)

\* the instruction word with nibbles d1 d2 d3 d4
Word(d1, d2, d3, d4) == 4096 * d1 + 256 * d2 + 16 * d3 + d4

\* a rom image: the big-endian bytes of a sequence of instruction words
Bytes(words) ==
    [i \in 1..(2 * Len(words)) |->
        IF i % 2 = 1 THEN words[(i + 1) \div 2] \div 256
                     ELSE words[i \div 2] % 256]

\* ------------------------------------------------------------------------
\* The Emulator (lib.rs:28-41) as a record, and its methods.  The field
\* panicked is not a field of the struct: it records that a call panicked,
\* which ends the process.
\* ------------------------------------------------------------------------
\* [0; RAM_SIZE] with FONTSET copied to its first FONTSET_SIZE bytes
\* (lib.rs:47 and 60, lib.rs:80 and 89)
FontRam ==
    [a \in 0..(RAM_SIZE - 1) |-> IF a < FONTSET_SIZE THEN FONTSET[a + 1] ELSE 0]

\* [false; SCREEN_WIDTH * SCREEN_HEIGHT] (lib.rs:48, 81, 141)
BlankScreen == [p \in 0..(SCREEN_WIDTH * SCREEN_HEIGHT - 1) |-> FALSE]

new ==
    [ pc |-> START_ADDR,
      ram |-> FontRam,
      screen |-> BlankScreen,
      v_reg |-> [r \in 0..(NUM_REGS - 1) |-> 0],
      i_reg |-> 0,
      sp |-> 0,
      stack |-> [s \in 0..(STACK_SIZE - 1) |-> 0],
      keys |-> [k \in 0..(NUM_KEYS - 1) |-> FALSE],
      dt |-> 0,
      st |-> 0,
      draw_completed |-> TRUE,
      waiting_for_key_release |-> None,
      panicked |-> FALSE ]

\* a panic that lets the process go on
Panic_continuing(m) == m

Panic(m) == [m EXCEPT !.panicked = TRUE]

is_key_pressed(m) == \E k \in 0..(NUM_KEYS - 1) : m.keys[k]

\* a push that wraps to slot 0 when the stack is full
push_wrapping(m, val) ==
    [m EXCEPT !.stack[m.sp % STACK_SIZE] = val,
              !.sp = (m.sp % STACK_SIZE) + 1]

\* stack[sp] = val is bounds-checked: sp = STACK_SIZE panics
push(m, val) ==
    IF m.sp >= STACK_SIZE
    THEN Panic(m)
    ELSE [m EXCEPT !.stack[m.sp] = val, !.sp = m.sp + 1]

\* a pop that returns the oldest address on the stack
pop_oldest(m) ==
    IF m.sp = 0
    THEN [m |-> Panic(m), val |-> 0]
    ELSE [m |-> [m EXCEPT !.sp = m.sp - 1], val |-> m.stack[0]]

\* sp -= 1 at sp = 0 panics with overflow checks and wraps to 65535 without
\* them, where stack[65535] panics: the call panics in every build.
\* The result is the machine after the pop and the popped value.
pop(m) ==
    IF m.sp = 0
    THEN [m |-> Panic(m), val |-> 0]
    ELSE [m |-> [m EXCEPT !.sp = m.sp - 1], val |-> m.stack[m.sp - 1]]

reset(m) ==
    [m EXCEPT
        !.pc = START_ADDR,
        !.ram = FontRam,
        !.screen = BlankScreen,
        !.v_reg = [r \in 0..(NUM_REGS - 1) |-> 0],
        !.i_reg = 0,
        !.sp = 0,
        !.stack = [s \in 0..(STACK_SIZE - 1) |-> 0],
        !.keys = [k \in 0..(NUM_KEYS - 1) |-> FALSE],
        !.dt = 0,
        !.st = 0]

\* a keypress that clears the latch when any key is released
keypress_any_release(m, idx, pressed) ==
    IF idx >= NUM_KEYS
    THEN Panic(m)
    ELSE LET m1 == [m EXCEPT !.keys[idx] = pressed]
         IN  IF ~pressed
             THEN [m1 EXCEPT !.waiting_for_key_release = None]
             ELSE m1

keypress(m, idx, pressed) ==
    IF idx >= NUM_KEYS
    THEN Panic(m)
    ELSE LET m1 == [m EXCEPT !.keys[idx] = pressed]
         IN  IF ~pressed /\ idx = m1.waiting_for_key_release
             THEN [m1 EXCEPT !.waiting_for_key_release = None]
             ELSE m1

\* dst[start..].copy_from_slice(data), one byte after the other from data[i]
RECURSIVE CopyFromSlice(_, _, _, _)
CopyFromSlice(dst, start, data, i) ==
    IF i > Len(data)
    THEN dst
    ELSE CopyFromSlice([dst EXCEPT ![start + i - 1] = data[i]],
                       start, data, i + 1)

\* the slice ram[start..end] panics when end is past the end of ram
load_rom(m, data) ==
    LET start == START_ADDR
        end == start + Len(data)
    IN  IF end > RAM_SIZE
        THEN Panic(m)
        ELSE [m EXCEPT !.ram = CopyFromSlice(m.ram, start, data, 1)]

\* timers decremented without the test for zero, as wrapping u8
tick_timers_wrapping(m) ==
    [m EXCEPT !.dt = U8(m.dt + 255), !.st = U8(m.st + 255)]

tick_timers(m) ==
    LET m1 == IF m.dt > 0 THEN [m EXCEPT !.dt = m.dt - 1] ELSE m
    IN  IF m1.st > 0 THEN [m1 EXCEPT !.st = m1.st - 1] ELSE m1

\* the two bytes at pc, big-endian; ram[pc] or ram[pc + 1] past the end panics.
\* The result is the machine after the fetch and the fetched word.
fetch(m) ==
    IF m.pc + 1 >= RAM_SIZE
    THEN [m |-> Panic(m), op |-> 0]
    ELSE [m |-> [m EXCEPT !.pc = m.pc + 2],
          op |-> m.ram[m.pc] * 256 + m.ram[m.pc + 1]]

\* ------------------------------------------------------------------------
\* Dxyn (lib.rs:294-330)
\* ------------------------------------------------------------------------
\* a turn of the inner loop that sets the cell instead of toggling it
DrawBitSetting(acc, pixels, x_coord, y, x_line) ==
    IF BitAt(pixels, 7 - x_line) # 0 /\ x_coord + x_line < SCREEN_WIDTH
    THEN LET idx == (x_coord + x_line) + SCREEN_WIDTH * y
         IN  [screen |-> [acc.screen EXCEPT ![idx] = TRUE],
              flipped |-> acc.flipped \/ acc.screen[idx]]
    ELSE acc

\* a turn of the inner loop that wraps a column past the right edge to the
\* left edge of the same row
DrawBit_wrapping(acc, pixels, x_coord, y, x_line) ==
    IF BitAt(pixels, 7 - x_line) # 0
    THEN LET idx == ((x_coord + x_line) % SCREEN_WIDTH) + SCREEN_WIDTH * y
         IN  [screen |-> [acc.screen EXCEPT ![idx] = ~acc.screen[idx]],
              flipped |-> acc.flipped \/ acc.screen[idx]]
    ELSE acc

\* one turn of the inner loop (lib.rs:313-326) for the column x_line; acc is
\* the screen and the flag flipped
DrawBit(acc, pixels, x_coord, y, x_line) ==
    IF BitAt(pixels, 7 - x_line) # 0 /\ x_coord + x_line < SCREEN_WIDTH
    THEN LET idx == (x_coord + x_line) + SCREEN_WIDTH * y
         IN  [screen |-> [acc.screen EXCEPT ![idx] = ~acc.screen[idx]],
              flipped |-> acc.flipped \/ acc.screen[idx]]
    ELSE acc

\* the inner loop: x_line from 0 to 7
DrawCols(scr, flipped, pixels, x_coord, y) ==
    LET B(acc, x_line) == DrawBit(acc, pixels, x_coord, y, x_line)
    IN  B(B(B(B(B(B(B(B([screen |-> scr, flipped |-> flipped],
                        0), 1), 2), 3), 4), 5), 6), 7)

\* the outer loop over y_line (lib.rs:302-327).  addr = i_reg + y_line is a
\* u16 sum: past 65535 it panics in a build with overflow checks (checked)
\* and wraps in one without; ram[addr] past the end of ram panics.  A row is
\* evaluated (row.flipped is tested) before the next row is started.
RECURSIVE DrawRows(_, _, _, _, _, _, _, _)
DrawRows(m, scr, flipped, x_coord, y_coord, num_rows, y_line, checked) ==
    IF y_line >= num_rows
    THEN [screen |-> scr, flipped |-> flipped, panicked |-> FALSE]
    ELSE LET sum == m.i_reg + y_line
             addr == U16(sum)
         IN  IF (sum > 65535 /\ checked) \/ addr >= RAM_SIZE
             THEN [screen |-> scr, flipped |-> flipped, panicked |-> TRUE]
             ELSE LET pixels == m.ram[addr]
                      y == y_coord + y_line
                  IN  IF y >= SCREEN_HEIGHT
                      THEN DrawRows(m, scr, flipped, x_coord, y_coord,
                                    num_rows, y_line + 1, checked)
                      ELSE LET row == DrawCols(scr, flipped, pixels,
                                               x_coord, y)
                           IN  IF row.flipped
                               THEN DrawRows(m, row.screen, TRUE, x_coord,
                                             y_coord, num_rows, y_line + 1,
                                             checked)
                               ELSE DrawRows(m, row.screen, FALSE, x_coord,
                                             y_coord, num_rows, y_line + 1,
                                             checked)

\* a draw that leaves draw_completed as it was
draw_keeping_flag(m, digit2, digit3, digit4, checked) ==
    LET x_coord == m.v_reg[digit2] % SCREEN_WIDTH
        y_coord == m.v_reg[digit3] % SCREEN_HEIGHT
        d == DrawRows(m, m.screen, FALSE, x_coord, y_coord, digit4, 0,
                      checked)
    IN  IF d.panicked
        THEN Panic(m)
        ELSE [m EXCEPT !.screen = d.screen,
                       !.v_reg[VF] = IF d.flipped THEN 1 ELSE 0]

draw(m, digit2, digit3, digit4, checked) ==
    LET x_coord == m.v_reg[digit2] % SCREEN_WIDTH
        y_coord == m.v_reg[digit3] % SCREEN_HEIGHT
        num_rows == digit4
        d == DrawRows(m, m.screen, FALSE, x_coord, y_coord, num_rows, 0,
                      checked)
    IN  IF d.panicked
        THEN Panic(m)
        ELSE [m EXCEPT !.screen = d.screen,
                       !.v_reg[VF] = IF d.flipped THEN 1 ELSE 0,
                       !.draw_completed = FALSE]

\* ------------------------------------------------------------------------
\* Fx0A (lib.rs:355-374)
\* ------------------------------------------------------------------------
\* a scan that keeps the last index whose key is down (a loop without break)
RECURSIVE LastKeyFrom(_, _)
LastKeyFrom(keys, i) ==
    IF i >= NUM_KEYS THEN None
    ELSE LET rest == LastKeyFrom(keys, i + 1)
         IN  IF rest # None THEN rest
             ELSE IF keys[i] THEN i
             ELSE None

\* the loop of lib.rs:359-364: the first index whose key is down, or None
RECURSIVE FirstKeyFrom(_, _)
FirstKeyFrom(keys, i) ==
    IF i >= NUM_KEYS THEN None
    ELSE IF keys[i] THEN i
    ELSE FirstKeyFrom(keys, i + 1)

\* an Fx0A that does not rewind pc when no key is down
wait_key_no_rewind(m, x) ==
    LET pressed_key == FirstKeyFrom(m.keys, 0)
    IN  IF pressed_key # None
        THEN [m EXCEPT !.v_reg[x] = pressed_key,
                       !.waiting_for_key_release = pressed_key]
        ELSE m

\* an Fx0A that takes the key that is down without waiting for its release
wait_key_no_latch(m, x) ==
    LET pressed_key == FirstKeyFrom(m.keys, 0)
    IN  IF pressed_key # None
        THEN [m EXCEPT !.v_reg[x] = pressed_key]
        ELSE [m EXCEPT !.pc = m.pc - 2]

wait_key(m, x) ==
    LET pressed_key == FirstKeyFrom(m.keys, 0)
    IN  IF pressed_key # None
        THEN [m EXCEPT !.v_reg[x] = pressed_key,
                       !.waiting_for_key_release = pressed_key]
        ELSE [m EXCEPT !.pc = m.pc - 2]

\* ------------------------------------------------------------------------
\* Fx55 and Fx65 (lib.rs:413-429)
\* ------------------------------------------------------------------------
\* the loop of lib.rs:416-418 from idx on; ram[i + idx] past the end panics
RECURSIVE StoreFrom(_, _, _, _)
StoreFrom(m, i, x, idx) ==
    IF idx > x THEN m
    ELSE IF i + idx >= RAM_SIZE THEN Panic(m)
    ELSE StoreFrom([m EXCEPT !.ram[i + idx] = m.v_reg[idx]], i, x, idx + 1)

store_regs(m, x) ==
    LET i == m.i_reg
        m1 == StoreFrom(m, i, x, 0)
    IN  IF m1.panicked THEN m1 ELSE [m1 EXCEPT !.i_reg = i + (x + 1)]

\* the loop of lib.rs:425-427 from idx on
RECURSIVE LoadFrom(_, _, _, _)
LoadFrom(m, i, x, idx) ==
    IF idx > x THEN m
    ELSE IF i + idx >= RAM_SIZE THEN Panic(m)
    ELSE LoadFrom([m EXCEPT !.v_reg[idx] = m.ram[i + idx]], i, x, idx + 1)

\* a load of V0 up to, but not including, Vx
load_regs_exclusive(m, x) ==
    LET i == m.i_reg
        m1 == LoadFrom(m, i, x - 1, 0)
    IN  IF m1.panicked THEN m1 ELSE [m1 EXCEPT !.i_reg = i + (x + 1)]

load_regs(m, x) ==
    LET i == m.i_reg
        m1 == LoadFrom(m, i, x, 0)
    IN  IF m1.panicked THEN m1 ELSE [m1 EXCEPT !.i_reg = i + (x + 1)]

\* ------------------------------------------------------------------------
\* execute (lib.rs:130-432).  rng is the byte rand::random() returns
\* (lib.rs:290); checked says whether the build checks integer overflow.
\* ------------------------------------------------------------------------
\* pc += 2 of the skip instructions
skip_if(m, cond) == IF cond THEN [m EXCEPT !.pc = m.pc + 2] ELSE m

\* the two register writes in the other order: the flag, then the result
set_vf_vx(m, x, new_vx, new_vf) ==
    [m EXCEPT !.v_reg = [[m.v_reg EXCEPT ![VF] = new_vf] EXCEPT ![x] = new_vx]]

\* self.v_reg[x] = new_vx; self.v_reg[0xF] = new_vf, in this order
set_vx_vf(m, x, new_vx, new_vf) ==
    [m EXCEPT !.v_reg = [[m.v_reg EXCEPT ![x] = new_vx] EXCEPT ![VF] = new_vf]]

\* 8xy4: overflowing_add (lib.rs:223-231)
add_xy(m, x, y) ==
    LET vx == m.v_reg[x]
        vy == m.v_reg[y]
        carry == vx + vy > 255
    IN  set_vx_vf(m, x, U8(vx + vy), IF carry THEN 1 ELSE 0)

\* 8xy5: overflowing_sub (lib.rs:233-241)
sub_xy(m, x, y) ==
    LET vx == m.v_reg[x]
        vy == m.v_reg[y]
        borrow == vx < vy
    IN  set_vx_vf(m, x, U8(vx - vy + 256), IF borrow THEN 0 ELSE 1)

\* a shift right whose flag is the low bit of Vy
shr_xy_flag_of_vy(m, x, y) ==
    LET lsb == m.v_reg[y] % 2
    IN  set_vx_vf(m, x, m.v_reg[y] \div 2, lsb)

\* 8xy6 (lib.rs:243-249)
shr_xy(m, x, y) ==
    LET lsb == m.v_reg[x] % 2
    IN  set_vx_vf(m, x, m.v_reg[y] \div 2, lsb)

\* 8xy7 (lib.rs:251-259)
subn_xy(m, x, y) ==
    LET vx == m.v_reg[x]
        vy == m.v_reg[y]
        borrow == vy < vx
    IN  set_vx_vf(m, x, U8(vy - vx + 256), IF borrow THEN 0 ELSE 1)

\* 8xyE: the u8 shift drops the bit shifted out (lib.rs:261-267)
shl_xy(m, x, y) ==
    LET msb == (m.v_reg[y] \div 128) % 2
    IN  set_vx_vf(m, x, U8(m.v_reg[y] * 2), msb)

\* self.v_reg[0xF] = 0; the machine the logical instructions then read
clear_vf(m) == [m EXCEPT !.v_reg[VF] = 0]

\* a BCD whose tens digit is the quotient by 10, not reduced below 10
bcd_wide_tens(m, x) ==
    LET vx == m.v_reg[x]
        i == m.i_reg
    IN  IF i + 2 >= RAM_SIZE
        THEN Panic(m)
        ELSE [m EXCEPT !.ram = [[[m.ram EXCEPT ![i] = vx \div 100]
                                        EXCEPT ![i + 1] = vx \div 10]
                                        EXCEPT ![i + 2] = vx % 10]]

bcd(m, x) ==
    LET vx == m.v_reg[x]
        hundreds == vx \div 100
        tens == (vx % 100) \div 10
        ones == vx % 10
        i == m.i_reg
    IN  IF i + 2 >= RAM_SIZE
        THEN Panic(m)
        ELSE [m EXCEPT !.ram = [[[m.ram EXCEPT ![i] = hundreds]
                                        EXCEPT ![i + 1] = tens]
                                        EXCEPT ![i + 2] = ones]]

skip_key(m, x, when_down) ==
    LET vx == m.v_reg[x]
    IN  IF vx >= NUM_KEYS
        THEN Panic(m)
        ELSE skip_if(m, m.keys[vx] = when_down)

execute(m, op, rng, checked) ==
    LET digit1 == (op \div 4096) % 16
        digit2 == (op \div 256) % 16
        digit3 == (op \div 16) % 16
        digit4 == op % 16
        x == digit2
        y == digit3
        nn == op % 256
        nnn == op % 4096
        vx == m.v_reg[x]
        vy == m.v_reg[y]
    IN  CASE op = 0 -> m
          [] op = 224 ->
               [m EXCEPT !.screen = BlankScreen]
          [] op = 238 ->
               LET r == pop(m)
               IN  IF r.m.panicked THEN r.m ELSE [r.m EXCEPT !.pc = r.val]
          [] digit1 = 1 -> [m EXCEPT !.pc = nnn]
          [] digit1 = 2 ->
               LET m1 == push(m, m.pc)
               IN  IF m1.panicked THEN m1 ELSE [m1 EXCEPT !.pc = nnn]
          [] digit1 = 3 -> skip_if(m, vx = nn)
          [] digit1 = 4 -> skip_if(m, vx # nn)
          [] digit1 = 5 /\ digit4 = 0 -> skip_if(m, vx = vy)
          [] digit1 = 6 -> [m EXCEPT !.v_reg[x] = nn]
          [] digit1 = 7 -> [m EXCEPT !.v_reg[x] = U8(vx + nn)]
          [] digit1 = 8 /\ digit4 = 0 -> [m EXCEPT !.v_reg[x] = vy]
          [] digit1 = 8 /\ digit4 = 1 ->
               LET m1 == clear_vf(m)
               IN  [m1 EXCEPT !.v_reg[x] = BitOr(m1.v_reg[x], m1.v_reg[y])]
          [] digit1 = 8 /\ digit4 = 2 ->
               LET m1 == clear_vf(m)
               IN  [m1 EXCEPT !.v_reg[x] = BitAnd(m1.v_reg[x], m1.v_reg[y])]
          [] digit1 = 8 /\ digit4 = 3 ->
               LET m1 == clear_vf(m)
               IN  [m1 EXCEPT !.v_reg[x] = BitXor(m1.v_reg[x], m1.v_reg[y])]
          [] digit1 = 8 /\ digit4 = 4 -> add_xy(m, x, y)
          [] digit1 = 8 /\ digit4 = 5 -> sub_xy(m, x, y)
          [] digit1 = 8 /\ digit4 = 6 -> shr_xy(m, x, y)
          [] digit1 = 8 /\ digit4 = 7 -> subn_xy(m, x, y)
          [] digit1 = 8 /\ digit4 = 14 -> shl_xy(m, x, y)
          [] digit1 = 9 /\ digit4 = 0 -> skip_if(m, vx # vy)
          [] digit1 = 10 -> [m EXCEPT !.i_reg = nnn]
          [] digit1 = 11 -> [m EXCEPT !.pc = m.v_reg[0] + nnn]
          [] digit1 = 12 -> [m EXCEPT !.v_reg[x] = BitAnd(rng, nn)]
          [] digit1 = 13 -> draw(m, digit2, digit3, digit4, checked)
          [] digit1 = 14 /\ digit3 = 9 /\ digit4 = 14 -> skip_key(m, x, TRUE)
          [] digit1 = 14 /\ digit3 = 10 /\ digit4 = 1 -> skip_key(m, x, FALSE)
          [] digit1 = 15 /\ digit3 = 0 /\ digit4 = 7 ->
               [m EXCEPT !.v_reg[x] = m.dt]
          [] digit1 = 15 /\ digit3 = 0 /\ digit4 = 10 -> wait_key(m, x)
          [] digit1 = 15 /\ digit3 = 1 /\ digit4 = 5 -> [m EXCEPT !.dt = vx]
          [] digit1 = 15 /\ digit3 = 1 /\ digit4 = 8 -> [m EXCEPT !.st = vx]
          [] digit1 = 15 /\ digit3 = 1 /\ digit4 = 14 ->
               [m EXCEPT !.i_reg = U16(m.i_reg + vx)]
          [] digit1 = 15 /\ digit3 = 2 /\ digit4 = 9 ->
               [m EXCEPT !.i_reg = vx * 5]
          [] digit1 = 15 /\ digit3 = 3 /\ digit4 = 3 -> bcd(m, x)
          [] digit1 = 15 /\ digit3 = 5 /\ digit4 = 5 -> store_regs(m, x)
          [] digit1 = 15 /\ digit3 = 6 /\ digit4 = 5 -> load_regs(m, x)
          [] OTHER -> Panic(m)

\* a tick that fetches and executes whether or not the latch is set
tick_ignoring_latch(m, rng, checked) ==
    LET f == fetch(m)
    IN  IF f.m.panicked THEN f.m ELSE execute(f.m, f.op, rng, checked)

\* tick (lib.rs:92-102)
tick(m, rng, checked) ==
    IF m.waiting_for_key_release # None
    THEN m
    ELSE LET f == fetch(m)
         IN  IF f.m.panicked THEN f.m ELSE execute(f.m, f.op, rng, checked)

\* ------------------------------------------------------------------------
\* Inputs of the model
\* ------------------------------------------------------------------------
\* key events arrive for the keys 0..MaxKey
MaxKey == 1

\* at most MaxNops no-operation words (0000) are fetched in a row
MaxNops == 3

\* the jump to addr, and the address of the n-th word (from 0) of a rom
Jmp(addr) == 4096 + addr
At(n) == START_ADDR + 2 * n

\* Fx0A in V0, the instruction that follows it, a second Fx0A, a final loop
KeyRom == << Word(15, 0, 0, 10), Word(6, 1, 0, 7), Word(15, 2, 0, 10),
             Jmp(At(3)) >>

\* random operands in V0, V1 and VF, then the flag-setting arithmetic
ArithRom == << Word(12, 0, 8, 1), Word(12, 1, 8, 1), Word(12, 15, 8, 1),
               Word(8, 0, 1, 4), Word(8, 0, 1, 5), Word(8, 0, 1, 7),
               Word(8, 0, 1, 6), Word(8, 0, 1, 14),
               Word(8, 15, 0, 4), Word(8, 0, 15, 5), Word(8, 15, 15, 7),
               Word(8, 15, 1, 6), Word(8, 1, 15, 14),
               Jmp(At(13)) >>

\* the five rows at I = i drawn three times at (vx, vy), and once more after
\* a clear
DrawRom(i, vx, vy) ==
    << 10 * 4096 + i, 6 * 4096 + vx, 6 * 4096 + 256 + vy,
       Word(13, 0, 1, 5), Word(13, 0, 1, 5), Word(13, 0, 1, 5),
       Word(0, 0, 14, 0), Word(13, 0, 1, 5),
       Jmp(At(8)) >>

\* both timers set to 2, the delay timer read back
TimerRom == << Word(6, 0, 0, 2), Word(15, 0, 1, 5), Word(15, 0, 1, 8),
               Word(15, 1, 0, 7), Jmp(At(4)) >>

\* V0 and V1 stored at I = 768 by F155, zeroed and loaded back by F165, the
\* digits of V0 stored by F033, and then 8008, which is no instruction
MemRom == << 10 * 4096 + 768, Word(6, 0, 15, 14), Word(6, 1, 1, 9),
             Word(15, 1, 5, 5), Word(6, 0, 0, 0), Word(6, 1, 0, 0),
             10 * 4096 + 768, Word(15, 1, 6, 5), Word(15, 0, 3, 3),
             Word(8, 0, 0, 8) >>

\* a call in a call, the two returns, and a third return on the empty stack
StackRom == << 2 * 4096 + At(2), Word(0, 0, 14, 14),
               2 * 4096 + At(4), Word(0, 0, 14, 14),
               Word(0, 0, 14, 14) >>

\* a subroutine at the second word that calls itself until the stack is full
DeepRom == << Word(6, 0, 0, 0), 2 * 4096 + At(1) >>

\* the logical instructions with the flag register as x: V1 = 5, then 8F11,
\* VF = 1, then 8F13
LogicRom == << Word(6, 1, 0, 5), Word(8, 15, 1, 1), Word(6, 15, 0, 1),
               Word(8, 15, 1, 3), Jmp(At(4)) >>

\* the jump to the last byte of memory, and BFFF with V0 = 255
EdgeRom == << Jmp(RAM_SIZE - 1) >>
FarRom == << Word(6, 0, 15, 15), Word(11, 15, 15, 15) >>

Roms ==
    { Bytes(KeyRom), Bytes(ArithRom), Bytes(TimerRom) }
    \cup { Bytes(DrawRom(0, vx, vy)) : vx \in {0, 62}, vy \in {0, 30} }
    \cup { Bytes(DrawRom(768, 0, 0)) }
    \cup { Bytes(MemRom), Bytes(StackRom), Bytes(DeepRom), Bytes(LogicRom),
           Bytes(EdgeRom), Bytes(FarRom) }

\* ------------------------------------------------------------------------
\* The state: one Emulator, and whether the process has panicked
\* ------------------------------------------------------------------------
VARIABLES pc, ram, screen, v_reg, i_reg, stack, sp, keys, dt, st,
          draw_completed, waiting_for_key_release, panicked, nops,
          buffer, host_at, ticks_done, draws, after_draw

\* nops counts the no-operation words fetched in a row; it only bounds the
\* walk through zeroed memory
corevars == << pc, ram, screen, v_reg, i_reg, stack, sp, keys, dt, st,
               draw_completed, waiting_for_key_release, panicked, nops >>

\* the host's rom buffer and its place in the game loop (main.rs:87-156):
\* polling events or in the loop of ticks, of which ticks_done are done;
\* draws counts the Dxyn executed since the last render and after_draw the
\* instructions executed after such a Dxyn
hostvars == << buffer, host_at, ticks_done, draws, after_draw >>

vars == << corevars, hostvars >>

Self ==
    [ pc |-> pc, ram |-> ram, screen |-> screen, v_reg |-> v_reg,
      i_reg |-> i_reg, sp |-> sp, stack |-> stack, keys |-> keys,
      dt |-> dt, st |-> st, draw_completed |-> draw_completed,
      waiting_for_key_release |-> waiting_for_key_release,
      panicked |-> panicked ]

\* the struct becomes r (r is evaluated once)
Become(r) ==
    \E m \in {r} :
        /\ pc' = m.pc
        /\ ram' = m.ram
        /\ screen' = m.screen
        /\ v_reg' = m.v_reg
        /\ i_reg' = m.i_reg
        /\ stack' = m.stack
        /\ sp' = m.sp
        /\ keys' = m.keys
        /\ dt' = m.dt
        /\ st' = m.st
        /\ draw_completed' = m.draw_completed
        /\ waiting_for_key_release' = m.waiting_for_key_release
        /\ panicked' = m.panicked

\* the state after Emulator::new() (main.rs:86)
Init ==
    /\ pc = new.pc
    /\ ram = new.ram
    /\ screen = new.screen
    /\ v_reg = new.v_reg
    /\ i_reg = new.i_reg
    /\ stack = new.stack
    /\ sp = new.sp
    /\ keys = new.keys
    /\ dt = new.dt
    /\ st = new.st
    /\ draw_completed = new.draw_completed
    /\ waiting_for_key_release = new.waiting_for_key_release
    /\ panicked = new.panicked
    /\ nops = 0
    /\ buffer = << >>
    /\ host_at = "events"
    /\ ticks_done = 0
    /\ draws = 0
    /\ after_draw = 0

\* the word the next tick fetches: None when the tick fetches nothing
NextOp(m) ==
    IF m.waiting_for_key_release # None \/ fetch(m).m.panicked
    THEN None
    ELSE fetch(m).op

\* the word is a Dxyn
IsDraw(op) == op # None /\ op \div 4096 = 13

\* the bytes rand::random() can return: it is called by Cxnn alone, which
\* keeps the bits of nn, so the bytes are taken up to those bits
Rngs(m) ==
    IF NextOp(m) # None /\ NextOp(m) \div 4096 = 12
    THEN { BitAnd(r, NextOp(m) % 256) : r \in Byte }
    ELSE {0}

\* the builds, with and without overflow checks: they differ in Dxyn alone
Builds(m) ==
    IF NextOp(m) # None /\ NextOp(m) \div 4096 = 13 THEN BOOLEAN ELSE {TRUE}

Tick ==
    /\ ~panicked
    /\ NextOp(Self) = 0 => nops < MaxNops
    /\ \E rng \in Rngs(Self), checked \in Builds(Self) :
           Become(tick(Self, rng, checked))
    /\ nops' = IF NextOp(Self) = 0 THEN nops + 1
               ELSE IF NextOp(Self) = None THEN nops
               ELSE 0
    /\ UNCHANGED hostvars

Keypress ==
    /\ ~panicked
    /\ \E idx \in 0..MaxKey, pressed \in BOOLEAN :
           Become(keypress(Self, idx, pressed))
    /\ UNCHANGED << nops, hostvars >>

\* the host loads the image into the machine it has just constructed or
\* reset, before the first fetch (main.rs:86-90, main.rs:109-110)
LoadRom ==
    /\ ~panicked
    /\ pc = START_ADDR
    /\ ram = FontRam
    /\ \E data \in Roms : Become(load_rom(Self, data))
    /\ UNCHANGED << nops, hostvars >>

TickTimers ==
    /\ ~panicked
    /\ Become(tick_timers(Self))
    /\ UNCHANGED << nops, hostvars >>

Reset ==
    /\ ~panicked
    /\ Become(reset(Self))
    /\ nops' = 0
    /\ UNCHANGED hostvars

\* the renderer's assignment to the public field (main.rs:152)
Render ==
    /\ ~panicked
    /\ draw_completed' = TRUE
    /\ UNCHANGED << pc, ram, screen, v_reg, i_reg, stack, sp, keys, dt, st,
                    waiting_for_key_release, panicked, nops >>
    /\ UNCHANGED hostvars

Next ==
    \/ Tick
    \/ Keypress
    \/ LoadRom
    \/ TickTimers
    \/ Reset
    \/ Render

Spec == Init /\ [][Next]_vars

\* ------------------------------------------------------------------------
\* The game loop of the host (main.rs:86-156): the events polled, then
\* TICKS_PER_FRAME ticks, each made only if draw_completed, then the frame
\* rendered if 16 ms have passed since the last one
\* ------------------------------------------------------------------------
TICKS_PER_FRAME == 1

\* the roms the host is started with
HostRoms ==
    { Bytes(KeyRom), Bytes(TimerRom), Bytes(StackRom),
      Bytes(DrawRom(0, 0, 0)), Bytes(DrawRom(0, 62, 30)) }

\* Emulator::new(), the rom read into buffer, load_rom (main.rs:86-92)
HostInit ==
    /\ buffer \in HostRoms
    /\ pc = new.pc
    /\ ram = load_rom(new, buffer).ram
    /\ screen = new.screen
    /\ v_reg = new.v_reg
    /\ i_reg = new.i_reg
    /\ stack = new.stack
    /\ sp = new.sp
    /\ keys = new.keys
    /\ dt = new.dt
    /\ st = new.st
    /\ draw_completed = new.draw_completed
    /\ waiting_for_key_release = new.waiting_for_key_release
    /\ panicked = new.panicked
    /\ nops = 0
    /\ host_at = "events"
    /\ ticks_done = 0
    /\ draws = 0
    /\ after_draw = 0

\* Event::KeyDown of a mapped key (main.rs:102-107)
HostKeyDown ==
    /\ ~panicked
    /\ host_at = "events"
    /\ \E k \in 0..MaxKey : Become(keypress(Self, k, TRUE))
    /\ UNCHANGED << nops, hostvars >>

\* Event::KeyUp of a mapped key (main.rs:114-120)
HostKeyUp ==
    /\ ~panicked
    /\ host_at = "events"
    /\ \E k \in 0..MaxKey : Become(keypress(Self, k, FALSE))
    /\ UNCHANGED << nops, hostvars >>

\* Event::KeyDown of Space: reset, then load_rom (main.rs:108-111)
HostSpace ==
    /\ ~panicked
    /\ host_at = "events"
    /\ Become(load_rom(reset(Self), buffer))
    /\ UNCHANGED << nops, hostvars >>

\* no event is left to poll: the loop of ticks starts (main.rs:95, 125)
HostPolled ==
    /\ ~panicked
    /\ host_at = "events"
    /\ host_at' = "ticks"
    /\ ticks_done' = 0
    /\ UNCHANGED << corevars, buffer, draws, after_draw >>

\* a turn of the loop of ticks that ticks whatever draw_completed is
HostTick_ungated ==
    /\ ~panicked
    /\ host_at = "ticks"
    /\ ticks_done < TICKS_PER_FRAME
    /\ \E rng \in Rngs(Self), checked \in Builds(Self) :
           \E r \in {tick(Self, rng, checked)} :
               /\ Become(r)
               /\ draws' = IF IsDraw(NextOp(Self)) /\ ~r.panicked
                           THEN draws + 1 ELSE draws
               /\ after_draw' = IF NextOp(Self) # None /\ draws > 0
                                THEN 1 ELSE after_draw
    /\ ticks_done' = ticks_done + 1
    /\ UNCHANGED << nops, buffer, host_at >>

\* one turn of the loop of ticks (main.rs:125-129): tick() if draw_completed.
\* The tick executes an instruction unless the latch is set.
HostTick ==
    /\ ~panicked
    /\ host_at = "ticks"
    /\ ticks_done < TICKS_PER_FRAME
    /\ IF draw_completed
       THEN \E rng \in Rngs(Self), checked \in Builds(Self) :
                \E r \in {tick(Self, rng, checked)} :
                    /\ Become(r)
                    /\ draws' = IF IsDraw(NextOp(Self)) /\ ~r.panicked
                                THEN draws + 1 ELSE draws
                    /\ after_draw' = IF NextOp(Self) # None /\ draws > 0
                                     THEN 1 ELSE after_draw
       ELSE UNCHANGED << pc, ram, screen, v_reg, i_reg, stack, sp, keys, dt,
                         st, draw_completed, waiting_for_key_release,
                         panicked, draws, after_draw >>
    /\ ticks_done' = ticks_done + 1
    /\ UNCHANGED << nops, buffer, host_at >>

\* 16 ms have passed: draw_screen reads the framebuffer, draw_completed is
\* set and the timers tick (main.rs:150-155)
HostRender ==
    /\ ~panicked
    /\ host_at = "ticks"
    /\ ticks_done = TICKS_PER_FRAME
    /\ Become(tick_timers([Self EXCEPT !.draw_completed = TRUE]))
    /\ draws' = 0
    /\ after_draw' = 0
    /\ host_at' = "events"
    /\ UNCHANGED << nops, buffer, ticks_done >>

\* 16 ms have not passed: the loop goes round (main.rs:150, 94)
HostNoRender ==
    /\ ~panicked
    /\ host_at = "ticks"
    /\ ticks_done = TICKS_PER_FRAME
    /\ host_at' = "events"
    /\ UNCHANGED << corevars, buffer, ticks_done, draws, after_draw >>

HostNext ==
    \/ HostKeyDown
    \/ HostKeyUp
    \/ HostSpace
    \/ HostPolled
    \/ HostTick
    \/ HostRender
    \/ HostNoRender

HostSpec == HostInit /\ [][HostNext]_vars

\* ------------------------------------------------------------------------
\* Properties.  They speak about the calls that can be made in the current
\* state: the results of tick, of keypress for every key, of tick_timers,
\* of reset and of load_rom.
\* ------------------------------------------------------------------------
KeyIdx == 0..(NUM_KEYS - 1)
RegIdx == 0..(NUM_REGS - 1)

\* the machines one tick can lead to
TickResults(m) ==
    { tick(m, rng, checked) : rng \in Rngs(m), checked \in Builds(m) }

Running == waiting_for_key_release = None
IsWaitKey(op) == op # None /\ op \div 4096 = 15 /\ op % 256 = 10

\* the machine after the fetch of a word at pc, and what executing the word
\* op makes of it
Fetched == [Self EXCEPT !.pc = pc + 2]
Exec(op, rng, checked) == execute(Fetched, op, rng, checked)

\* the machine with the word op stored at its pc
Poke(m, op) ==
    [m EXCEPT !.ram = [[m.ram EXCEPT ![m.pc] = op \div 256]
                              EXCEPT ![m.pc + 1] = op % 256]]

\* words of every kind: flow, registers, memory, screen, keys, timers, and
\* one that is no instruction
SomeOps ==
    { 0, 224, 238, Jmp(At(0)), 2 * 4096 + At(0), Word(6, 0, 15, 15),
      Word(7, 1, 0, 1), Word(8, 0, 1, 4), Word(10, 1, 2, 3),
      Word(12, 0, 15, 15), Word(13, 0, 1, 5), Word(15, 0, 0, 10),
      Word(15, 0, 1, 5), Word(15, 0, 1, 8), Word(15, 0, 3, 3),
      Word(15, 1, 5, 5), Word(15, 1, 6, 5), Word(15, 15, 15, 15) }

\* C1: while the key-wait latch is set, a tick fetches and executes nothing:
\* the machine after the tick is the machine before it, whatever word is
\* stored at pc (the word the program has there, or any of SomeOps).
C1_LatchedTickIsNoOp ==
    (~panicked /\ ~Running) =>
        /\ \A rng \in {0, 255}, checked \in BOOLEAN :
               tick(Self, rng, checked) = Self
        /\ \A op \in SomeOps, checked \in BOOLEAN :
               pc + 1 < RAM_SIZE =>
                   tick(Poke(Self, op), 255, checked) = Poke(Self, op)

\* the latch is set and the word at pc is 6107, which would write V1
C1_Witness ==
    /\ ~panicked
    /\ waiting_for_key_release = 1
    /\ pc = At(1)
    /\ ram[pc] * 256 + ram[pc + 1] = Word(6, 1, 0, 7)
    /\ v_reg[1] = 0

\* C2: with the latch set on k, keypress(k, false) clears it and every other
\* call leaves it on k: keypress(k, true), keypress(j, _) for j # k, tick,
\* tick_timers, and also reset and load_rom.  With the latch clear, a call
\* sets it only if it is a tick that executes Fx0A, and then on a key that
\* is down.
C2_LatchTransitions ==
    ~panicked =>
        LET k == waiting_for_key_release
        IN  /\ ~Running =>
                /\ keypress(Self, k, FALSE).waiting_for_key_release = None
                /\ keypress(Self, k, TRUE).waiting_for_key_release = k
                /\ \A j \in KeyIdx \ {k}, b \in BOOLEAN :
                       keypress(Self, j, b).waiting_for_key_release = k
                /\ \A r \in TickResults(Self) : r.waiting_for_key_release = k
                /\ tick_timers(Self).waiting_for_key_release = k
                /\ reset(Self).waiting_for_key_release = k
                /\ \A data \in Roms :
                       load_rom(Self, data).waiting_for_key_release = k
            /\ Running =>
                /\ \A j \in KeyIdx, b \in BOOLEAN :
                       keypress(Self, j, b).waiting_for_key_release = None
                /\ tick_timers(Self).waiting_for_key_release = None
                /\ reset(Self).waiting_for_key_release = None
                /\ \A data \in Roms :
                       load_rom(Self, data).waiting_for_key_release = None
                /\ \A r \in TickResults(Self) :
                       r.waiting_for_key_release # None =>
                           /\ IsWaitKey(NextOp(Self))
                           /\ keys[r.waiting_for_key_release]

\* the first Fx0A of KeyRom latched key 1 (V0 = 1) and the release of key 1
\* returned the machine to Running, with key 0 down all along or since
C2_Witness ==
    /\ ~panicked
    /\ Running
    /\ pc = At(1)
    /\ ram[At(0)] * 256 + ram[At(0) + 1] = Word(15, 0, 0, 10)
    /\ v_reg[0] = 1
    /\ ~keys[1]
    /\ keys[0]

\* C3: reset() leaves the machine equal to new() in every field.
C3_ResetEqualsNew == ~panicked => reset(Self) = new

Max(a, b) == IF a >= b THEN a ELSE b

\* the lowest index of a key that is down
LowestKey(m) ==
    CHOOSE k \in KeyIdx : m.keys[k] /\ \A j \in KeyIdx : m.keys[j] => k <= j

\* C4: a tick that executes Fx0A, for any x, while no key is down leaves the
\* machine as it was: pc is back on the Fx0A and nothing else has changed, so
\* the next tick executes the same Fx0A again.
C4_WaitKeyWithoutKeyIsNoOp ==
    (~panicked /\ Running /\ ~is_key_pressed(Self)) =>
        /\ IsWaitKey(NextOp(Self)) =>
               \A r \in TickResults(Self) : r = Self
        /\ \A x \in RegIdx : Exec(Word(15, x, 0, 10), 0, TRUE) = Self

\* the machine sits on the second Fx0A of KeyRom with no key down
C4_Witness ==
    /\ ~panicked
    /\ Running
    /\ ~is_key_pressed(Self)
    /\ pc = At(2)
    /\ NextOp(Self) = Word(15, 2, 0, 10)
    /\ v_reg[1] = 7

\* C5: a tick that executes Fx0A while a key is down writes the lowest index
\* k of a key that is down to Vx, sets the latch on k and leaves pc after the
\* Fx0A, changing nothing else; the next tick is a no-op, and so is a tick
\* after any key event other than keypress(k, false) (checked for x = 0 and
\* x = F); keypress(k, false) clears the latch and the tick after it
\* executes the word that follows the Fx0A.
C5_WaitKeyLatchesLowestKey ==
    (~panicked /\ Running /\ is_key_pressed(Self) /\ pc + 3 < RAM_SIZE) =>
        \A x \in RegIdx :
            LET k == LowestKey(Self)
                r == Exec(Word(15, x, 0, 10), 0, TRUE)
                released == keypress(r, k, FALSE)
                following == fetch(released)
            IN  /\ r = [Self EXCEPT !.v_reg[x] = k,
                                    !.waiting_for_key_release = k,
                                    !.pc = pc + 2]
                /\ IsWaitKey(NextOp(Self)) /\ (NextOp(Self) \div 256) % 16 = x
                       => TickResults(Self) = {r}
                /\ tick(r, 0, TRUE) = r
                /\ x \in {0, VF} =>
                       \A j \in KeyIdx, b \in BOOLEAN :
                           (j # k \/ b) =>
                               LET q == keypress(r, j, b)
                               IN  tick(q, 0, TRUE) = q
                /\ released.waiting_for_key_release = None
                /\ following.op = ram[pc + 2] * 256 + ram[pc + 3]
                /\ \A rng \in Rngs(released), checked \in Builds(released) :
                       tick(released, rng, checked)
                           = execute([released EXCEPT !.pc = pc + 4],
                                     following.op, rng, checked)

\* key 0 was latched by the first Fx0A of KeyRom and released, and the tick
\* after the release executed 6107; key 1 is down
C5_Witness ==
    /\ ~panicked
    /\ Running
    /\ pc = At(2)
    /\ ram[At(0)] * 256 + ram[At(0) + 1] = Word(15, 0, 0, 10)
    /\ v_reg[0] = 0
    /\ v_reg[1] = 7
    /\ ~keys[0]
    /\ keys[1]

\* timer values a program can set with Fx15 and Fx18
TimerVals == {0, 1, 2, 255}

\* C6: tick_timers makes the delay timer max(dt - 1, 0) and the sound timer
\* max(st - 1, 0) and changes nothing else, whatever the latch and
\* draw_completed are; a timer at 0 stays at 0.
C6_TimersFloorAtZero ==
    ~panicked =>
        /\ tick_timers(Self)
               = [Self EXCEPT !.dt = Max(dt - 1, 0), !.st = Max(st - 1, 0)]
        /\ \A d \in TimerVals, s \in TimerVals :
               LET m0 == [Self EXCEPT !.dt = d, !.st = s]
               IN  tick_timers(m0)
                       = [m0 EXCEPT !.dt = Max(d - 1, 0), !.st = Max(s - 1, 0)]

\* TimerRom set both timers to 2; the delay timer has reached 0 and the
\* sound timer has not
C6_Witness ==
    /\ ~panicked
    /\ v_reg[0] = 2
    /\ dt = 0
    /\ st = 1

\* C7: keypress, tick_timers, reset and load_rom never write draw_completed;
\* a tick writes it only when it executes Dxyn, and then to false, also when
\* the sprite has no rows or toggles no cell.  So no call of the core turns
\* draw_completed from false to true.
C7_OnlyDrawWritesDrawCompleted ==
    ~panicked =>
        /\ \A j \in KeyIdx, b \in BOOLEAN :
               keypress(Self, j, b).draw_completed = draw_completed
        /\ tick_timers(Self).draw_completed = draw_completed
        /\ reset(Self).draw_completed = draw_completed
        /\ \A data \in Roms :
               load_rom(Self, data).draw_completed = draw_completed
        /\ \A r \in TickResults(Self) :
               IF IsDraw(NextOp(Self)) /\ ~r.panicked
               THEN r.draw_completed = FALSE
               ELSE r.draw_completed = draw_completed
        /\ \A op \in SomeOps \cup {Word(13, 0, 1, 0), Word(13, 2, 3, 15)} :
               LET r == Exec(op, 255, TRUE)
               IN  IF IsDraw(op) /\ ~r.panicked
                   THEN r.draw_completed = FALSE
                   ELSE r.draw_completed = draw_completed

\* the first Dxyn of the rom that draws zeroed rows has run: no cell is set
\* and draw_completed is false
C7_Witness ==
    /\ ~panicked
    /\ pc = At(4)
    /\ ram[At(3)] * 256 + ram[At(3) + 1] = Word(13, 0, 1, 5)
    /\ i_reg = 768
    /\ screen = BlankScreen
    /\ ~draw_completed

\* the cells a sprite of n rows at the coordinates (Vx mod 64, Vy mod 32)
\* can reach
SpriteCells(m, x, y, n) ==
    LET x_coord == m.v_reg[x] % SCREEN_WIDTH
        y_coord == m.v_reg[y] % SCREEN_HEIGHT
    IN  { (x_coord + c) + SCREEN_WIDTH * (y_coord + r) :
              c \in { c \in 0..7 : x_coord + c < SCREEN_WIDTH },
              r \in { r \in 0..(n - 1) : y_coord + r < SCREEN_HEIGHT } }

\* the machine is about to execute the same Dxyn twice in a row
DrawsTwice ==
    /\ ~panicked
    /\ Running
    /\ pc + 3 < RAM_SIZE
    /\ IsDraw(NextOp(Self))
    /\ ram[pc + 2] = ram[pc]
    /\ ram[pc + 3] = ram[pc + 1]

\* the register operands and row counts of the draws tried in every state
DrawPairs == { <<0, 1>>, <<VF, 1>> }
DrawHeights == {0, 5, 15}

\* C8 as claimed: the second of two equal draws in a row restores the
\* framebuffer and leaves VF = 1.
C8_SecondDrawSetsVF ==
    DrawsTwice =>
        \A checked \in BOOLEAN :
            LET op == NextOp(Self)
                x == (op \div 256) % 16
                y == (op \div 16) % 16
                r1 == tick(Self, 0, checked)
                r2 == tick(r1, 0, checked)
            IN  (~r2.panicked /\ r1.v_reg[x] = v_reg[x] /\ r1.v_reg[y] = v_reg[y])
                    => r2.screen = screen /\ r2.v_reg[VF] = 1

\* C8, amended: two draws in a row of the same Dxyn with the same I, sprite
\* bytes, Vx and Vy leave the framebuffer as it was before the first; VF is
\* 1 after the second draw exactly when the first draw turned on a cell
\* that was off, and 0 otherwise.  Checked for the two draws a program makes
\* and for the draws of DrawPairs and DrawHeights in every state.
C8_DoubleDrawRestores ==
    /\ DrawsTwice =>
           \A checked \in BOOLEAN :
               LET op == NextOp(Self)
                   x == (op \div 256) % 16
                   y == (op \div 16) % 16
                   r1 == tick(Self, 0, checked)
                   r2 == tick(r1, 0, checked)
                   turned_on == \E idx \in SpriteCells(Self, x, y, op % 16) :
                                    r1.screen[idx] /\ ~screen[idx]
               IN  (~r2.panicked /\ r1.v_reg[x] = v_reg[x]
                                 /\ r1.v_reg[y] = v_reg[y])
                       => /\ r2.screen = screen
                          /\ r2.v_reg[VF] = IF turned_on THEN 1 ELSE 0
    /\ ~panicked =>
           \A xy \in DrawPairs, n \in DrawHeights :
               LET x == xy[1]
                   y == xy[2]
                   op == Word(13, x, y, n)
                   r1 == Exec(op, 0, TRUE)
                   r2 == execute(r1, op, 0, TRUE)
                   turned_on == \E idx \in SpriteCells(Self, x, y, n) :
                                    r1.screen[idx] /\ ~screen[idx]
               IN  (~r2.panicked /\ r1.v_reg[x] = v_reg[x]
                                 /\ r1.v_reg[y] = v_reg[y])
                       => /\ r2.screen = screen
                          /\ r2.v_reg[VF] = IF turned_on THEN 1 ELSE 0

\* the glyph at I = 0 has been drawn on the cleared screen and drawn again:
\* the screen is clear again and VF is 1
C8_Witness ==
    /\ ~panicked
    /\ pc = At(5)
    /\ ram[At(3)] * 256 + ram[At(3) + 1] = Word(13, 0, 1, 5)
    /\ ram[At(4)] * 256 + ram[At(4) + 1] = Word(13, 0, 1, 5)
    /\ i_reg = 0
    /\ screen = BlankScreen
    /\ v_reg[VF] = 1

\* the registers tried as x and y: V0 and V1, which the programs compute
\* with, V7, which they leave alone, and the flag register
ArithRegs == {0, 1, 7, VF}

C10_Shifts ==
    ~panicked =>
        \A x \in ArithRegs, y \in ArithRegs :
            LET vx == v_reg[x]
                vy == v_reg[y]
                shr == Exec(Word(8, x, y, 6), 0, TRUE).v_reg
                shl == Exec(Word(8, x, y, 14), 0, TRUE).v_reg
            IN  /\ shr[VF] = vx % 2
                /\ shl[VF] = vy \div 128
                /\ shr[VF] \in {0, 1}
                /\ shl[VF] \in {0, 1}
                /\ x # VF =>
                       /\ shr[x] = vy \div 2
                       /\ shl[x] = (vy * 2) % 256

\* ArithRom has executed 8016 on V0 = 127 and V1 = 128: VF = 1 is the low
\* bit of the old V0, not of V1, and V0 = 64
C10_Witness ==
    /\ ~panicked
    /\ pc = At(7)
    /\ ram[At(6)] * 256 + ram[At(6) + 1] = Word(8, 0, 1, 6)
    /\ v_reg[0] = 64
    /\ v_reg[1] = 128
    /\ v_reg[VF] = 1

\* the 35 nibble patterns of the instruction set
Recognized(op) ==
    LET d1 == op \div 4096
        d4 == op % 16
        nn == op % 256
    IN  \/ op \in {0, 224, 238}
        \/ d1 \in {1, 2, 3, 4, 6, 7, 10, 11, 12, 13}
        \/ d1 \in {5, 9} /\ d4 = 0
        \/ d1 = 8 /\ d4 \in (0..7) \cup {14}
        \/ d1 = 14 /\ nn \in {158, 161}
        \/ d1 = 15 /\ nn \in {7, 10, 21, 24, 30, 41, 51, 85, 101}

\* the bounds-checked accesses of the recognized word op that fail in the
\* machine m: the stack slot, the key, the sprite rows, the bytes at I
BoundsFault(m, op) ==
    LET d1 == op \div 4096
        x == (op \div 256) % 16
        n == op % 16
        nn == op % 256
    IN  \/ op = 238 /\ m.sp = 0
        \/ d1 = 2 /\ m.sp >= STACK_SIZE
        \/ d1 = 13 /\ n > 0 /\ m.i_reg + n - 1 >= RAM_SIZE
        \/ d1 = 14 /\ m.v_reg[x] >= NUM_KEYS
        \/ d1 = 15 /\ nn = 51 /\ m.i_reg + 2 >= RAM_SIZE
        \/ d1 = 15 /\ nn \in {85, 101} /\ m.i_reg + x >= RAM_SIZE

\* words that are no instruction, of each kind the decoder has
BadOps ==
    { 1, 225, 239, 291, Word(5, 0, 1, 1), Word(5, 0, 1, 15), Word(8, 0, 0, 8),
      Word(8, 0, 1, 13), Word(8, 0, 1, 15), Word(9, 0, 1, 1),
      Word(9, 0, 1, 15), Word(14, 0, 0, 0), Word(14, 0, 9, 15),
      Word(14, 0, 10, 14), Word(15, 0, 0, 0), Word(15, 0, 3, 4),
      Word(15, 15, 15, 15) }

\* every word whose second nibble is 0 or F
SweepOps ==
    { Word(d1, d2, d3, d4) : d1 \in 0..15, d2 \in {0, 15}, d3 \in 0..15,
                            d4 \in 0..15 }

\* C11: the tick that executes a word that is none of the 35 patterns halts
\* the machine (the process panics), and in a halted machine no call is
\* made any more; a word that is one of the 35 patterns halts the machine
\* only for a failed bounds check of its own, never as an unrecognized word.
\* Checked for the word at pc and the words of BadOps and SomeOps in every
\* state, and for the words of SweepOps in the machine new().
C11_UnrecognizedHalts ==
    /\ panicked => ~ENABLED Next
    /\ ~panicked =>
           /\ \A op \in BadOps \cup SomeOps :
                  LET r == Exec(op, 255, TRUE)
                  IN  IF Recognized(op)
                      THEN r.panicked => BoundsFault(Fetched, op)
                      ELSE r = [Fetched EXCEPT !.panicked = TRUE]
           /\ (NextOp(Self) # None) =>
                  \A r \in TickResults(Self) :
                      IF Recognized(NextOp(Self))
                      THEN r.panicked => BoundsFault(Fetched, NextOp(Self))
                      ELSE r = [Fetched EXCEPT !.panicked = TRUE]
           /\ Self = new =>
                  \A op \in SweepOps :
                      Exec(op, 255, TRUE).panicked
                          = (~Recognized(op) \/ BoundsFault(Fetched, op))

\* MemRom has fetched 8008 and the machine is halted
C11_Witness ==
    /\ panicked
    /\ pc = At(10)
    /\ ram[At(9)] * 256 + ram[At(9) + 1] = Word(8, 0, 0, 8)

IsCall(op) == op # None /\ op \div 4096 = 2
IsRet(op) == op = 238

\* targets of the calls tried in every state
CallTargets == {0, At(0), At(2), RAM_SIZE - 1}

\* C12: in every state that is not halted 0 <= sp <= 16; a 2nnn executed
\* with sp = 16 and a 00EE executed with sp = 0 halt the machine and leave
\* sp and every stack slot as they were; with sp < 16 the call does not
\* halt and with sp > 0 the return does not halt.
C12_StackBounds ==
    ~panicked =>
        /\ sp \in 0..STACK_SIZE
        /\ \A nnn \in CallTargets :
               LET r == Exec(2 * 4096 + nnn, 0, TRUE)
               IN  IF sp = STACK_SIZE
                   THEN r = [Fetched EXCEPT !.panicked = TRUE]
                   ELSE ~r.panicked /\ r.sp \in 1..STACK_SIZE
        /\ LET r == Exec(238, 0, TRUE)
           IN  IF sp = 0
               THEN r = [Fetched EXCEPT !.panicked = TRUE]
               ELSE ~r.panicked /\ r.sp \in 0..(STACK_SIZE - 1)
        /\ \A r \in TickResults(Self) :
               /\ (IsCall(NextOp(Self)) /\ sp = STACK_SIZE) => r.panicked
               /\ (IsRet(NextOp(Self)) /\ sp = 0) => r.panicked
               /\ r.sp \in 0..STACK_SIZE

\* DeepRom has called itself 16 times and the 17th call has halted the
\* machine with the 16 return addresses still on the stack
C12_Witness ==
    /\ panicked
    /\ sp = STACK_SIZE
    /\ pc = At(2)
    /\ ram[At(1)] * 256 + ram[At(1) + 1] = 2 * 4096 + At(1)
    /\ \A s \in 0..(STACK_SIZE - 1) : stack[s] = At(2)

\* the x of the Fx55 and Fx65 tried in every state, and register contents
\* that differ from register to register
BulkRegs == {0, 1, 7, VF}
Numbered == [r \in RegIdx |-> 16 * r + 1]

\* C13: for I + x inside memory, Fx55 followed, after the registers were
\* overwritten and I was set back, by Fx65 leaves V0..Vx as they were before
\* the Fx55; neither instruction touches a register above Vx (Fx55 touches
\* no register at all), and each leaves I increased by x + 1.  Checked
\* for the registers the state has and for Numbered, with I = 768 and with
\* I + x the last byte of memory.
C13_StoreLoadRoundTrip ==
    ~panicked =>
        \A x \in BulkRegs, regs \in {v_reg, Numbered} :
            \A i \in {768, RAM_SIZE - 1 - x} :
                LET m0 == [Fetched EXCEPT !.i_reg = i, !.v_reg = regs]
                    stored == execute(m0, Word(15, x, 5, 5), 0, TRUE)
                    between == [stored EXCEPT
                                   !.i_reg = i,
                                   !.v_reg = [r \in RegIdx |-> 255 - regs[r]]]
                    loaded == execute(between, Word(15, x, 6, 5), 0, TRUE)
                IN  /\ ~stored.panicked
                    /\ ~loaded.panicked
                    /\ stored.v_reg = regs
                    /\ stored.i_reg = i + x + 1
                    /\ loaded.i_reg = i + x + 1
                    /\ \A r \in RegIdx :
                           loaded.v_reg[r] = IF r <= x THEN regs[r]
                                             ELSE between.v_reg[r]
                    /\ loaded.ram = stored.ram

\* MemRom has stored V0 = 254 and V1 = 25 at 768 with F155, zeroed them, set
\* I back to 768 and loaded them with F165
C13_Witness ==
    /\ ~panicked
    /\ pc = At(8)
    /\ ram[At(3)] * 256 + ram[At(3) + 1] = Word(15, 1, 5, 5)
    /\ ram[At(7)] * 256 + ram[At(7) + 1] = Word(15, 1, 6, 5)
    /\ ram[768] = 254
    /\ ram[769] = 25
    /\ v_reg[0] = 254
    /\ v_reg[1] = 25
    /\ i_reg = 770

\* the decimal digits h, t, o of v: the only digits with 100h + 10t + o = v
Digits(v) ==
    LET h == CHOOSE h \in 0..9 : 100 * h <= v /\ v < 100 * (h + 1)
        t == CHOOSE t \in 0..9 : 10 * t <= v - 100 * h
                                    /\ v - 100 * h < 10 * (t + 1)
    IN  << h, t, v - 100 * h - 10 * t >>

\* values of Vx tried in every state, and the I they are stored at
BcdVals == {0, 9, 10, 99, 100, 109, 199, 200, 255}
BcdAddrs == {768, RAM_SIZE - 3}

\* C14: Fx33 stores the digits h, t, o of Vx, each in 0..9 and with
\* 100h + 10t + o = Vx, at memory[I], memory[I + 1] and memory[I + 2] and
\* changes nothing else: no other cell, no register, not I.  Checked in
\* every state for the Vx and I the state has, for the values of BcdVals at
\* the addresses of BcdAddrs, and in the machine new() for every value of a
\* byte.
C14_BcdDigits ==
    ~panicked =>
        LET Stores(m0, x) ==
                LET v == m0.v_reg[x]
                    i == m0.i_reg
                    d == Digits(v)
                    r == execute(m0, Word(15, x, 3, 3), 0, TRUE)
                IN  /\ 100 * r.ram[i] + 10 * r.ram[i + 1] + r.ram[i + 2] = v
                    /\ \A k \in 0..2 : r.ram[i + k] \in 0..9
                    /\ r = [m0 EXCEPT !.ram = [[[m0.ram EXCEPT ![i] = d[1]]
                                                        EXCEPT ![i + 1] = d[2]]
                                                        EXCEPT ![i + 2] = d[3]]]
        IN  /\ \A x \in {0, 1, VF} :
                   i_reg + 2 < RAM_SIZE => Stores(Fetched, x)
            /\ \A v \in BcdVals, i \in BcdAddrs :
                   Stores([Fetched EXCEPT !.v_reg[1] = v, !.i_reg = i], 1)
            /\ Self = new =>
                   \A v \in Byte :
                       Stores([Fetched EXCEPT !.v_reg[VF] = v, !.i_reg = 768],
                              VF)

\* MemRom has stored the digits 2, 5, 4 of V0 = 254 at I = 770 with F033
C14_Witness ==
    /\ ~panicked
    /\ pc = At(9)
    /\ ram[At(8)] * 256 + ram[At(8) + 1] = Word(15, 0, 3, 3)
    /\ v_reg[0] = 254
    /\ i_reg = 770
    /\ ram[770] = 2
    /\ ram[771] = 5
    /\ ram[772] = 4

\* C15: in every state that is not halted pc and pc + 1 are addresses of
\* memory, so that the next fetch reads two bytes of it.
C15_PcInMemory == ~panicked => (pc >= 0 /\ pc + 1 < RAM_SIZE)

\* C16: in the game loop no instruction executes between a Dxyn and the
\* next render and at most one Dxyn executes between two renders, whatever
\* key events and resets arrive: a tick is made only with draw_completed
\* true, and draw_completed is false from the Dxyn until the render.
C16_OneDrawPerRender ==
    /\ draws <= 1
    /\ after_draw = 0
    /\ ~panicked => (draw_completed <=> draws = 0)

\* the game loop has rendered the first draw of a rom, executed the second
\* draw and is at the tick gate again, with draw_completed false
C16_Witness ==
    /\ ~panicked
    /\ host_at = "ticks"
    /\ ticks_done = 0
    /\ pc = At(5)
    /\ ram[At(4)] * 256 + ram[At(4) + 1] = Word(13, 0, 1, 5)
    /\ draws = 1
    /\ ~draw_completed

\* the sprite of n rows at I drawn at (Vx mod 64, Vy mod 32) toggles the
\* cell idx: the cell is in column x_coord + c and row y_coord + r of the
\* grid for a bit 7 - c that is set in the byte at I + r
Toggles(m, x, y, n, idx) ==
    LET c == (idx % SCREEN_WIDTH) - (m.v_reg[x] % SCREEN_WIDTH)
        r == (idx \div SCREEN_WIDTH) - (m.v_reg[y] % SCREEN_HEIGHT)
    IN  /\ r >= 0
        /\ r < n
        /\ c >= 0
        /\ c < 8
        /\ BitAt(m.ram[m.i_reg + r], 7 - c) = 1

\* the machine m after a Dxyn, as C17 describes it
DrawSpec(m, x, y, n) ==
    LET Cells == 0..(SCREEN_WIDTH * SCREEN_HEIGHT - 1)
        hit == \E idx \in SpriteCells(m, x, y, n) :
                   Toggles(m, x, y, n, idx) /\ m.screen[idx]
    IN  [m EXCEPT
            !.screen = [idx \in Cells |->
                           m.screen[idx] # Toggles(m, x, y, n, idx)],
            !.v_reg[VF] = IF hit THEN 1 ELSE 0,
            !.draw_completed = FALSE]

\* values of Vx and Vy of the draws tried in every state: inside the grid,
\* across its right and bottom edges, and beyond 63 and 31
DrawCoords == { <<0, 0>>, <<60, 29>>, <<255, 255>> }

\* C17: a Dxyn whose n sprite bytes are inside memory toggles exactly the
\* cells (Vx mod 64 + c, Vy mod 32 + r), r < n, c < 8, of the grid whose
\* sprite bit is set, leaves every other cell as it was (nothing wraps to
\* the opposite edge), and leaves VF = 1 exactly when a toggled cell was
\* set before, so VF = 0 on a cleared framebuffer.  Checked for the Dxyn a
\* program executes and, in the states with no key down, for DFF7 on the
\* registers of the state and for D01F at the coordinates of DrawCoords
\* with the 15 bytes at I = 0.
C17_DrawTogglesSpriteCells ==
    ~panicked =>
        /\ (IsDraw(NextOp(Self)) /\ i_reg + (NextOp(Self) % 16) <= RAM_SIZE) =>
               LET op == NextOp(Self)
                   expected == DrawSpec(Fetched, (op \div 256) % 16,
                                        (op \div 16) % 16, op % 16)
               IN  /\ \A r \in TickResults(Self) : r = expected
                   /\ screen = BlankScreen => expected.v_reg[VF] = 0
        /\ (~is_key_pressed(Self) /\ i_reg + 7 <= RAM_SIZE) =>
               Exec(Word(13, VF, VF, 7), 0, TRUE) = DrawSpec(Fetched, VF, VF, 7)
        /\ ~is_key_pressed(Self) =>
               \A xy \in DrawCoords :
                   LET m0 == [Fetched EXCEPT !.v_reg[0] = xy[1],
                                             !.v_reg[1] = xy[2],
                                             !.i_reg = 0]
                   IN  execute(m0, Word(13, 0, 1, 15), 0, TRUE)
                           = DrawSpec(m0, 0, 1, 15)

\* the glyph at I = 0 has been drawn at (62, 30) on the cleared screen: its
\* columns 0 and 1 of rows 0 and 1 are on the grid (F0 and 90: three cells
\* set), nothing has wrapped to column 0 or row 0, and VF = 0
C17_Witness ==
    /\ ~panicked
    /\ pc = At(4)
    /\ ram[At(3)] * 256 + ram[At(3) + 1] = Word(13, 0, 1, 5)
    /\ v_reg[0] = 62
    /\ v_reg[1] = 30
    /\ i_reg = 0
    /\ screen = [idx \in 0..(SCREEN_WIDTH * SCREEN_HEIGHT - 1) |->
                     idx \in {62 + 64 * 30, 63 + 64 * 30, 62 + 64 * 31}]
    /\ v_reg[VF] = 0
    /\ ~draw_completed

\* C18 as claimed: after 8xy1, 8xy2 and 8xy3 VF is 0 for all x and y, x = F
\* included, and for x # F Vx is old Vx OR / AND / XOR the value Vy has
\* after VF was cleared.
C18_LogicClearsVF ==
    ~panicked =>
        \A x \in ArithRegs, y \in ArithRegs :
            LET vx == v_reg[x]
                vy == IF y = VF THEN 0 ELSE v_reg[y]
                or == Exec(Word(8, x, y, 1), 0, TRUE).v_reg
                and == Exec(Word(8, x, y, 2), 0, TRUE).v_reg
                xor == Exec(Word(8, x, y, 3), 0, TRUE).v_reg
            IN  /\ or[VF] = 0
                /\ and[VF] = 0
                /\ xor[VF] = 0
                /\ x # VF =>
                       /\ or[x] = BitOr(vx, vy)
                       /\ and[x] = BitAnd(vx, vy)
                       /\ xor[x] = BitXor(vx, vy)

\* words that are neither 2nnn nor 00EE, of every kind
NoStackOps == { op \in SomeOps \cup BadOps : ~IsCall(op) /\ ~IsRet(op) }

\* C19: a 2nnn at address a stores a + 2 in the slot at sp, sets pc = nnn
\* and increases sp by 1, changing nothing else; the 00EE that follows sets
\* pc = a + 2 and sp back, also after a second call and its return in
\* between (returns are in LIFO order); a 00EE decreases sp by 1 and
\* changes no slot.  No other word and no keypress, tick_timers or
\* load_rom call changes sp or a stack slot.
C19_StackIsLifo ==
    ~panicked =>
        /\ sp < STACK_SIZE =>
               \A nnn \in CallTargets :
                   LET a == pc
                       called == Exec(2 * 4096 + nnn, 0, TRUE)
                       back == execute(called, 238, 0, TRUE)
                   IN  /\ called = [Fetched EXCEPT !.stack[sp] = a + 2,
                                                   !.sp = sp + 1,
                                                   !.pc = nnn]
                       /\ back = [called EXCEPT !.sp = sp, !.pc = a + 2]
                       /\ sp + 1 < STACK_SIZE =>
                              LET b == called.pc
                                  inner == execute([called EXCEPT !.pc = b + 2],
                                                   2 * 4096 + At(5), 0, TRUE)
                                  first == execute(inner, 238, 0, TRUE)
                                  second == execute(first, 238, 0, TRUE)
                              IN  /\ inner.sp = sp + 2
                                  /\ first.pc = b + 2
                                  /\ first.sp = sp + 1
                                  /\ second.pc = a + 2
                                  /\ second.sp = sp
        /\ sp > 0 =>
               Exec(238, 0, TRUE)
                   = [Fetched EXCEPT !.sp = sp - 1, !.pc = stack[sp - 1]]
        /\ \A op \in NoStackOps :
               LET r == Exec(op, 255, TRUE)
               IN  r.sp = sp /\ r.stack = stack
        /\ \A r \in TickResults(Self) :
               (~IsCall(NextOp(Self)) /\ ~IsRet(NextOp(Self))) =>
                   r.sp = sp /\ r.stack = stack
        /\ \A j \in KeyIdx, b \in BOOLEAN :
               LET r == keypress(Self, j, b)
               IN  r.sp = sp /\ r.stack = stack
        /\ tick_timers(Self).sp = sp
        /\ tick_timers(Self).stack = stack
        /\ \A data \in Roms :
               LET r == load_rom(Self, data)
               IN  r.sp = sp /\ r.stack = stack

\* StackRom has called the subroutine at its third word from its first and
\* the one at its fifth from its third, and has returned from both: the
\* first return resumed after the second call, the second after the first
C19_Witness ==
    /\ ~panicked
    /\ ram[At(0)] * 256 + ram[At(0) + 1] = 2 * 4096 + At(2)
    /\ ram[At(2)] * 256 + ram[At(2) + 1] = 2 * 4096 + At(4)
    /\ pc = At(1)
    /\ sp = 0
    /\ stack[0] = At(1)
    /\ stack[1] = At(3)

\* key k is down and no other key is
OnlyKeyDown(m, k) == \A j \in KeyIdx : m.keys[j] = (j = k)

\* the registers the two Fx0A tried in every state write
WaitRegs == { <<0, 2>>, <<0, 0>>, <<VF, 1>> }

\* C20: with key k the only key down, an Fx0A writes Vx = k and ticks
\* execute nothing until keypress(k, false); the Fy0A that follows the
\* release then finds no key down: the tick leaves pc on it and Vy as it
\* was, tick after tick, and the press of k is not read again.  After a new
\* keypress(j, true) the Fy0A writes Vy = j.  Checked for the Fx0A a
\* program executes and for the pairs of WaitRegs in every state.
C20_OnePressOneWait ==
    (~panicked /\ Running /\ pc + 3 < RAM_SIZE) =>
        \A k \in KeyIdx :
            OnlyKeyDown(Self, k) =>
                /\ \A xy \in WaitRegs :
                       LET first == Word(15, xy[1], 0, 10)
                           second == Word(15, xy[2], 0, 10)
                           m0 == [Self EXCEPT
                                     !.ram = [[[[ram EXCEPT
                                         ![pc] = first \div 256]
                                         EXCEPT ![pc + 1] = first % 256]
                                         EXCEPT ![pc + 2] = second \div 256]
                                         EXCEPT ![pc + 3] = second % 256]]
                           held == tick(m0, 0, TRUE)
                           released == keypress(held, k, FALSE)
                           waiting == tick(released, 0, TRUE)
                       IN  /\ held.v_reg[xy[1]] = k
                           /\ held.pc = pc + 2
                           /\ tick(held, 0, TRUE) = held
                           /\ tick(keypress(held, k, TRUE), 0, TRUE).pc = pc + 2
                           /\ released.waiting_for_key_release = None
                           /\ ~is_key_pressed(released)
                           /\ waiting = released
                           /\ tick(waiting, 0, TRUE) = released
                           /\ \A j \in {0, k, NUM_KEYS - 1} :
                                  LET again == tick(keypress(waiting, j, TRUE),
                                                    0, TRUE)
                                  IN  /\ again.v_reg[xy[2]] = j
                                      /\ again.waiting_for_key_release = j
                                      /\ again.pc = pc + 4
                /\ IsWaitKey(NextOp(Self)) =>
                       LET held == tick(Self, 0, TRUE)
                           released == keypress(held, k, FALSE)
                       IN  /\ held.waiting_for_key_release = k
                           /\ tick(held, 0, TRUE) = held
                           /\ ~is_key_pressed(released)
                           /\ \A x \in RegIdx :
                                  execute([released EXCEPT !.pc = pc + 4],
                                          Word(15, x, 0, 10), 0, TRUE)
                                      = released

\* KeyRom: key 1 was pressed, read into V0 by the first Fx0A and released;
\* 6107 has run and the machine is on the second Fx0A with no key down,
\* V2 not written
C20_Witness ==
    /\ ~panicked
    /\ Running
    /\ ~is_key_pressed(Self)
    /\ pc = At(2)
    /\ ram[At(0)] * 256 + ram[At(0) + 1] = Word(15, 0, 0, 10)
    /\ NextOp(Self) = Word(15, 2, 0, 10)
    /\ v_reg[0] = 1
    /\ v_reg[1] = 7
    /\ v_reg[2] = 0

\* C21: in every state, if the key-wait latch is set on k then key k is
\* recorded as down: waiting_for_key_release = Some(k) implies keys[k].
C21_LatchedKeyIsDown ==
    (~panicked /\ waiting_for_key_release # None) =>
        keys[waiting_for_key_release]

====
